---------------------------- MODULE Spec2Model ----------------------------
(***************************************************************************)
(* A model of the analysis-result pipeline of oumi/analyzer.py and of the  *)
(* /api/analyze endpoint of oumi/app.py.                                   *)
(*                                                                         *)
(* Python str values are TLA+ strings; TLC evaluates Len, SubSeq, Head,    *)
(* Tail and \o on them, so the string functions below work on the real     *)
(* characters of the real keyword tables and templates of the source.      *)
(***************************************************************************)
EXTENDS Integers, Sequences, FiniteSets, TLC

VARIABLES
    pool,                \* the batches handed to the executor of app.py, by request
    call,                \* pure-function harness: the arguments of the call
    ret,                 \* pure-function harness: the value returned, or NoRet
    parsers,             \* OumiAnalyzer.parsers: the registered extensions
    ANALYZER_AVAILABLE,  \* app.py module global
    analyzer_instance,   \* app.py module global: "None" or "created"
    pc,                  \* where the current request / call is
    request,             \* the request being handled: files, types, caller
    results,             \* analyze_files: the list built so far
    cur,                 \* analyze_file in progress: inference call in flight
    inferCalls,          \* per file index: engine.infer calls made for it
    oracle,              \* per file index: what the parsers did for it
    response             \* what the caller got back

vars == << pool, call, ret, parsers, ANALYZER_AVAILABLE, analyzer_instance, pc,
           request, results, cur, inferCalls, oracle, response >>

-----------------------------------------------------------------------------
(* Python str operations                                                   *)

\* the slice s[a-1:b] of Python: the characters a..b (1-based, inclusive)
\* that exist, "" when there are none
Sub(s, a, b) ==
    LET lo == IF a < 1 THEN 1 ELSE a
        hi == IF b > Len(s) THEN Len(s) ELSE b
    IN  IF lo > hi THEN "" ELSE SubSeq(s, lo, hi)

\* s[i] (1-based) as a one-character string, "" past either end
Ch(s, i) == Sub(s, i, i)

\* the characters str.strip() and \s treat as whitespace
IsSpace(c) == c \in {" ", "\n", "\t", "\r"}

IsDigit(c) == c \in {"0", "1", "2", "3", "4", "5", "6", "7", "8", "9"}

UpperChars == "ABCDEFGHIJKLMNOPQRSTUVWXYZ"
LowerChars == "abcdefghijklmnopqrstuvwxyz"

\* the lower-case letter of each upper-case letter, and the reverse
ToLower == [c \in {Ch(UpperChars, i) : i \in 1..Len(UpperChars)} |->
               Ch(LowerChars, CHOOSE i \in 1..Len(UpperChars) : Ch(UpperChars, i) = c)]
ToUpper == [c \in {Ch(LowerChars, i) : i \in 1..Len(UpperChars)} |->
               Ch(UpperChars, CHOOSE i \in 1..Len(UpperChars) : Ch(LowerChars, i) = c)]

LowerCh(c) == IF c \in DOMAIN ToLower THEN ToLower[c] ELSE c
UpperCh(c) == IF c \in DOMAIN ToUpper THEN ToUpper[c] ELSE c

\* the characters a..b of s, each replaced by its lower-case letter
RECURSIVE LowerRange(_, _, _)
LowerRange(s, a, b) ==
    IF a > b THEN ""
    ELSE IF a = b THEN LowerCh(Ch(s, a))
    ELSE LET m == (a + b) \div 2
         IN  LowerRange(s, a, m) \o LowerRange(s, m + 1, b)

\* str.lower()
Lower(s) == LowerRange(s, 1, Len(s))

RECURSIVE UpperRange(_, _, _)
UpperRange(s, a, b) ==
    IF a > b THEN ""
    ELSE IF a = b THEN UpperCh(Ch(s, a))
    ELSE LET m == (a + b) \div 2
         IN  UpperRange(s, a, m) \o UpperRange(s, m + 1, b)

\* str.upper()
Upper(s) == UpperRange(s, 1, Len(s))

\* s[:n]
Take(s, n) == Sub(s, 1, IF n < Len(s) THEN n ELSE Len(s))

\* s[n:] (0-based n, as in Python)
Drop(s, n) == Sub(s, n + 1, Len(s))

\* a mis-written strip that returns its argument unchanged
StripForgotten(s) == s

\* str.strip(): leading and trailing whitespace removed
Strip(s) ==
    LET idx == {i \in 1..Len(s) : ~IsSpace(Ch(s, i))}
    IN  IF idx = {} THEN ""
        ELSE Sub(s, CHOOSE i \in idx : \A j \in idx : i <= j,
                       CHOOSE i \in idx : \A j \in idx : i >= j)

\* s.startswith(p)
StartsWith(s, p) == Len(s) >= Len(p) /\ Sub(s, 1, Len(p)) = p

\* kw in s
Contains(s, kw) ==
    \E i \in 1..(Len(s) - Len(kw) + 1) : Sub(s, i, i + Len(kw) - 1) = kw

\* any(keyword in s for keyword in kws), kws a sequence of strings
AnyIn(kws, s) == \E k \in DOMAIN kws : Contains(s, kws[k])

\* the k-th smallest member of a set of integers
Nth(P, k) == CHOOSE x \in P : Cardinality({y \in P : y < x}) = k - 1

\* s.split(sep) for a one-character separator: the pieces between the
\* occurrences of sep, one more than there are occurrences
Split(s, sep) ==
    LET P == {i \in 1..Len(s) : Ch(s, i) = sep}
        n == Cardinality(P)
    IN  [k \in 1..(n + 1) |->
            Sub(s, IF k = 1 THEN 1 ELSE Nth(P, k - 1) + 1,
                   IF k = n + 1 THEN Len(s) ELSE Nth(P, k) - 1)]

\* s.split()[0]: the first whitespace-separated word ("" stands for the
\* IndexError of an all-whitespace string, which no label of ext_map is)
FirstWord(s) ==
    LET t == Strip(s)
        ws == {i \in 1..Len(t) : IsSpace(Ch(t, i))}
    IN  IF ws = {} THEN t
        ELSE Sub(t, 1, (CHOOSE i \in ws : \A j \in ws : i <= j) - 1)

RECURSIVE JoinFrom(_, _, _)
JoinFrom(sep, xs, i) ==
    IF i > Len(xs) THEN ""
    ELSE IF i = Len(xs) THEN xs[i]
    ELSE xs[i] \o sep \o JoinFrom(sep, xs, i + 1)

\* sep.join(xs)
Join(sep, xs) == JoinFrom(sep, xs, 1)

\* the index of the first non-whitespace character at or after i (Len+1 if none)
RECURSIVE SkipSpace(_, _)
SkipSpace(s, i) ==
    IF i <= Len(s) /\ IsSpace(Ch(s, i)) THEN SkipSpace(s, i + 1) ELSE i

\* the index of the first non-digit character at or after i (Len+1 if none)
RECURSIVE SkipDigits(_, _)
SkipDigits(s, i) ==
    IF i <= Len(s) /\ IsDigit(Ch(s, i)) THEN SkipDigits(s, i + 1) ELSE i

-----------------------------------------------------------------------------
(* Language Detector: _get_file_language                                    *)

\* Path(file_path).name: the final component (trailing slashes dropped)
RECURSIVE PathName(_)
PathName(p) ==
    IF p # "" /\ Ch(p, Len(p)) = "/" THEN PathName(Sub(p, 1, Len(p) - 1))
    ELSE LET sl == {i \in 1..Len(p) : Ch(p, i) = "/"}
         IN  IF sl = {} THEN p
             ELSE Sub(p, (CHOOSE i \in sl : \A j \in sl : i >= j) + 1, Len(p))

\* Path(file_path).suffix: from the last dot of the name, unless that dot
\* is the first or the last character of the name
PathSuffix(p) ==
    LET name == PathName(p)
        dots == {i \in 1..Len(name) : Ch(name, i) = "."}
        last == CHOOSE i \in dots : \A j \in dots : i >= j
    IN  IF dots = {} THEN ""
        ELSE IF 1 < last /\ last < Len(name) THEN Sub(name, last, Len(name))
        ELSE ""

ext_map ==
    << <<".js", "JavaScript">>, <<".jsx", "JavaScript (React)">>,
       <<".ts", "TypeScript">>, <<".tsx", "TypeScript (React)">>,
       <<".py", "Python">>, <<".pyw", "Python">>,
       <<".java", "Java">>, <<".kt", "Kotlin">>, <<".scala", "Scala">>,
       <<".go", "Go">>, <<".rs", "Rust">>, <<".c", "C">>, <<".cpp", "C++">>,
       <<".cc", "C++">>, <<".cxx", "C++">>, <<".h", "C/C++ Header">>,
       <<".cs", "C#">>, <<".vb", "Visual Basic">>, <<".fs", "F#">>,
       <<".rb", "Ruby">>, <<".php", "PHP">>, <<".swift", "Swift">>,
       <<".m", "Objective-C">>,
       <<".dart", "Dart">>, <<".lua", "Lua">>, <<".perl", "Perl">>,
       <<".pl", "Perl">>,
       <<".sh", "Shell">>, <<".bash", "Bash">>, <<".zsh", "Zsh">>,
       <<".sol", "Solidity">>, <<".vy", "Vyper">>,
       <<".html", "HTML">>, <<".htm", "HTML">>, <<".xml", "XML">>,
       <<".css", "CSS">>, <<".scss", "SCSS">>, <<".sass", "Sass">>,
       <<".less", "Less">>,
       <<".json", "JSON">>, <<".yaml", "YAML">>, <<".yml", "YAML">>,
       <<".toml", "TOML">>, <<".ini", "INI">>, <<".conf", "Config">>,
       <<".sql", "SQL">>, <<".graphql", "GraphQL">>, <<".gql", "GraphQL">>,
       <<".md", "Markdown">>, <<".rst", "reStructuredText">>,
       <<".tex", "LaTeX">>,
       <<".r", "R">>, <<".jl", "Julia">>, <<".ex", "Elixir">>,
       <<".exs", "Elixir">>, <<".erl", "Erlang">>,
       <<".clj", "Clojure">>, <<".hs", "Haskell">>, <<".ml", "OCaml">>,
       <<".dockerfile", "Dockerfile">>, <<".proto", "Protocol Buffer">>,
       <<".vue", "Vue">>, <<".svelte", "Svelte">> >>

\* ext_map.get(Path(file_path).suffix.lower(), 'Unknown')
get_file_language(file_path) ==
    LET ext == Lower(PathSuffix(file_path))
        hit == {k \in DOMAIN ext_map : ext_map[k][1] = ext}
    IN  IF hit = {} THEN "Unknown" ELSE ext_map[CHOOSE k \in hit : TRUE][2]

\* self._get_file_language(file_path).lower().split()[0]
LangTag(file_path) == FirstWord(Lower(get_file_language(file_path)))

-----------------------------------------------------------------------------
(* Classifier: _determine_priority                                          *)

critical_keywords ==
    << "critical", "security vulnerability", "sql injection", "xss", "csrf",
       "authentication bypass", "data breach", "exposed secret",
       "hardcoded password" >>
high_keywords ==
    << "syntax error", "compilation error", "runtime error",
       "undefined variable", "null pointer", "exception", "crash", "bug",
       "error", "typeerror", "nameerror", "attributeerror" >>
medium_keywords ==
    << "warning", "deprecated", "performance issue", "memory leak",
       "infinite loop" >>
low_keywords ==
    << "suggestion", "improvement", "best practice", "style", "formatting" >>

\* a mis-ordered chain: the high set is tested before the critical set
determine_priority_highFirst(analysis_text) ==
    LET text_lower == Lower(analysis_text)
    IN  IF AnyIn(high_keywords, text_lower) THEN "high"
        ELSE IF AnyIn(critical_keywords, text_lower) THEN "critical"
        ELSE IF AnyIn(medium_keywords, text_lower) THEN "medium"
        ELSE IF AnyIn(low_keywords, text_lower) THEN "low"
        ELSE "medium"

determine_priority(analysis_text) ==
    LET text_lower == Lower(analysis_text)
    IN  IF AnyIn(critical_keywords, text_lower) THEN "critical"
        ELSE IF AnyIn(high_keywords, text_lower) THEN "high"
        ELSE IF AnyIn(medium_keywords, text_lower) THEN "medium"
        ELSE IF AnyIn(low_keywords, text_lower) THEN "low"
        ELSE "medium"

-----------------------------------------------------------------------------
(* Classifier: _extract_tags                                                *)

\* the error_tags dict, in insertion order (the order a Python dict iterates)
error_tags ==
    << <<"syntax", << "syntax error", "syntaxerror", "missing bracket",
                      "missing parenthesis", "missing semicolon", "unclosed",
                      "unterminated" >> >>,
       <<"type-error", << "type error", "typeerror", "type mismatch",
                          "wrong type", "undefined type" >> >>,
       <<"runtime-error", << "runtime error", "runtimeerror", "null pointer",
                             "nullpointerexception", "division by zero",
                             "array out of bounds" >> >>,
       <<"reference-error", << "reference error", "referenceerror",
                               "undefined variable", "undefined function",
                               "not defined" >> >>,
       <<"import-error", << "import error", "importerror", "module not found",
                            "cannot find module", "missing import" >> >>,
       <<"compilation-error", << "compilation error", "compile error",
                                 "build error", "build failed" >> >>,
       <<"sql-injection", << "sql injection", "sql concatenation",
                             "query concatenation" >> >>,
       <<"xss", << "xss", "cross-site scripting", "innerhtml",
                   "dangerouslysetinnerhtml" >> >>,
       <<"command-injection", << "command injection", "os.system",
                                 "subprocess", "eval", "exec" >> >>,
       <<"security", << "security vulnerability", "security issue",
                        "exposed secret", "hardcoded password", "api key" >> >>,
       <<"memory-leak", << "memory leak", "unclosed resource",
                           "resource leak" >> >>,
       <<"performance", << "performance issue", "infinite loop",
                           "blocking operation", "unnecessary re-render" >> >>,
       <<"logic-error", << "logic error", "incorrect condition",
                           "wrong operator", "unreachable code" >> >> >>

\* the number of table tags after which the scan of error_tags stops
MaxTableTags == 3
\* tags[:5]
MaxTags == 5

\* a scan of error_tags that never stops early
RECURSIVE ScanTagsNoBreak(_, _, _)
ScanTagsNoBreak(text, k, tags) ==
    IF k > Len(error_tags) THEN tags
    ELSE IF AnyIn(error_tags[k][2], text)
         THEN ScanTagsNoBreak(text, k + 1, Append(tags, error_tags[k][1]))
         ELSE ScanTagsNoBreak(text, k + 1, tags)

\* the for-loop over error_tags.items(), from entry k on, with the tags so far
RECURSIVE ScanTags(_, _, _)
ScanTags(text, k, tags) ==
    IF k > Len(error_tags) THEN tags
    ELSE IF AnyIn(error_tags[k][2], text)
         THEN LET t2 == Append(tags, error_tags[k][1])
              IN  IF Len(t2) >= MaxTableTags THEN t2
                  ELSE ScanTags(text, k + 1, t2)
         ELSE ScanTags(text, k + 1, tags)

SeqContains(xs, x) == \E i \in DOMAIN xs : xs[i] = x

extract_tags(title, content, file_path) ==
    LET text     == Lower(title \o " " \o content)
        tags     == ScanTags(text, 1, << >>)
        lang_tag == LangTag(file_path)
        tags2    == IF lang_tag # "" /\ ~SeqContains(tags, lang_tag)
                    THEN Append(tags, lang_tag) ELSE tags
    IN  SubSeq(tags2, 1, IF Len(tags2) < MaxTags THEN Len(tags2) ELSE MaxTags)

-----------------------------------------------------------------------------
(* Python values that need not be str: the members of analysis_types       *)

PyStr(s) == [ty |-> "str", v |-> s]
\* the int 7, a member a caller may put in analysis_types
PyInt7 == [ty |-> "int", v |-> "7"]

\* x in analysis_types, for a str x
InTypes(x, analysis_types) == SeqContains(analysis_types, PyStr(x))

\* whether ", ".join(analysis_types) raises TypeError (a non-str member)
JoinRaises(analysis_types) ==
    \E i \in DOMAIN analysis_types : analysis_types[i].ty # "str"

\* ", ".join(analysis_types)
TypesStr(analysis_types) ==
    Join(", ", [i \in DOMAIN analysis_types |-> analysis_types[i].v])

-----------------------------------------------------------------------------
(* Issue Segmenter: _format_as_github_issue, _parse_analysis_to_issues      *)

\* the backquote of the body templates, which a TLA+ string cannot hold:
\* an apostrophe stands for it
Backquote == "'"

format_as_github_issue(file_path, issue_title, issue_body, priority, analysis_type) ==
    [ title |-> issue_title,
      body  |-> "## File\n" \o Backquote \o file_path \o Backquote
                \o "\n\n## Priority\n**"
                \o Upper(priority) \o "**\n\n## Type\n" \o analysis_type
                \o "\n\n---\n\n" \o issue_body
                \o "\n\n---\n\n*Analysis powered by Oumi Inference Engine*\n",
      tags  |-> << >> ]

\* len(analysis_text.strip()) < 20
MinTextLen == 20
\* len(section) < 30
MinSectionLen == 30
\* issue_desc[:60]
TitleDescLen == 60
\* lines[0][:80]
SectionTitleLen == 80
\* section[6:]
IssuesPrefixLen == 6

\* re.match(r'[-*]\s*Line\s+(\d+):\s*(.+)', s) for a line s (no "\n" in it):
\* [ok, num, desc] with num = group(1) and desc = group(2).  \s* and \d+ are
\* greedy and what follows each cannot start with what it matches, so the
\* only backtracking is \s* giving its last character to (.+) when nothing
\* but whitespace follows the colon.
LineMatch(s) ==
    LET i1 == SkipSpace(s, 2)
        i2 == i1 + 4
        i3 == SkipSpace(s, i2)
        i4 == SkipDigits(s, i3)
        i5 == SkipSpace(s, i4 + 1)
        head == /\ Len(s) >= 1 /\ Ch(s, 1) \in {"-", "*"}
                /\ Sub(s, i1, i1 + 3) = "Line"
                /\ i3 > i2
                /\ i4 > i3
                /\ Ch(s, i4) = ":"
    IN  IF ~head THEN [ok |-> FALSE, num |-> "", desc |-> ""]
        ELSE IF i5 <= Len(s)
             THEN [ok |-> TRUE, num |-> Sub(s, i3, i4 - 1),
                   desc |-> Sub(s, i5, Len(s))]
        ELSE IF i5 > i4 + 1
             THEN [ok |-> TRUE, num |-> Sub(s, i3, i4 - 1),
                   desc |-> Ch(s, Len(s))]
        ELSE [ok |-> FALSE, num |-> "", desc |-> ""]

\* where a match of \n###?\s+ starting at i ends (the index after it), or 0
HeadingEnd(s, i) ==
    LET w == IF Ch(s, i + 3) = "#" THEN i + 4 ELSE i + 3
    IN  IF /\ Ch(s, i) = "\n" /\ Sub(s, i + 1, i + 2) = "##"
           /\ w <= Len(s) /\ IsSpace(Ch(s, w))
        THEN SkipSpace(s, w) ELSE 0

\* the pieces from index start on, C being the indices where the pattern
\* matches: the leftmost match at or after start ends a piece, and the
\* search goes on after that match
RECURSIVE ReSplitFrom(_, _, _)
ReSplitFrom(s, C, start) ==
    LET later == {i \in C : i >= start}
        i == CHOOSE x \in later : \A y \in later : x <= y
    IN  IF later = {} THEN << Sub(s, start, Len(s)) >>
        ELSE << Sub(s, start, i - 1) >> \o ReSplitFrom(s, C, HeadingEnd(s, i))

\* re.split(r'\n###?\s+', s)
ReSplitHeadings(s) ==
    ReSplitFrom(s, {i \in 1..Len(s) : Ch(s, i) = "\n" /\ HeadingEnd(s, i) > 0}, 1)

\* a sequence with the members of xs that satisfy Test, in order
RECURSIVE SelectFrom(_, _, _)
SelectFrom(xs, Test(_), i) ==
    IF i > Len(xs) THEN << >>
    ELSE (IF Test(xs[i]) THEN << xs[i] >> ELSE << >>) \o SelectFrom(xs, Test, i + 1)

\* the lines the first loop collects: stripped, starting "- Line " or "* Line "
IsIssueLine(line_stripped) ==
    StartsWith(line_stripped, "- Line ") \/ StartsWith(line_stripped, "* Line ")

IssueLines(analysis_text) ==
    LET raw == Split(analysis_text, "\n")
        stripped == [i \in DOMAIN raw |-> Strip(raw[i])]
    IN  SelectFrom(stripped, IsIssueLine, 1)

\* the record built for one issue line that the pattern matches
LineIssue(file_path, m, priority, types_str) ==
    LET issue_desc  == Strip(m.desc)
        issue_title == "Line " \o m.num \o ": " \o Take(issue_desc, TitleDescLen)
                       \o (IF Len(issue_desc) > TitleDescLen THEN "..." ELSE "")
        tags  == extract_tags(issue_title, issue_desc, file_path)
        issue == format_as_github_issue(file_path, issue_title,
                     "**Line " \o m.num \o ":** " \o issue_desc, priority, types_str)
    IN  [issue EXCEPT !.tags = tags]

RECURSIVE LineIssues(_, _, _, _, _)
LineIssues(file_path, issue_lines, priority, types_str, i) ==
    IF i > Len(issue_lines) THEN << >>
    ELSE LET m == LineMatch(issue_lines[i])
         IN  (IF m.ok THEN << LineIssue(file_path, m, priority, types_str) >>
              ELSE << >>)
             \o LineIssues(file_path, issue_lines, priority, types_str, i + 1)

\* a loop body that tests the length after the "issues" prefix is removed
SectionKeptLengthAfterRemoval(section0) ==
    LET section == Strip(section0)
        body    == IF StartsWith(Lower(section), "issues")
                   THEN Strip(Drop(section, IssuesPrefixLen))
                   ELSE section
    IN  IF body = "" \/ Len(body) < MinSectionLen THEN "" ELSE body

\* the body of the loop over sections: the section a record is built from,
\* or "" when the loop continues without one
SectionKept(section0) ==
    LET section == Strip(section0)
    IN  IF section = "" \/ Len(section) < MinSectionLen THEN ""
        ELSE IF StartsWith(Lower(section), "issues")
             THEN Strip(Drop(section, IssuesPrefixLen))
             ELSE section

\* the record built for one kept section
SectionIssue(file_path, section, priority, types_str) ==
    LET lines == Split(section, "\n")
        section_title == Take(lines[1], SectionTitleLen)
        tags  == extract_tags(section_title, section, file_path)
        issue == format_as_github_issue(file_path,
                     section_title \o ": " \o PathName(file_path),
                     section, priority, types_str)
    IN  [issue EXCEPT !.tags = tags]

RECURSIVE SectionIssues(_, _, _, _, _)
SectionIssues(file_path, sections, priority, types_str, i) ==
    IF i > Len(sections) THEN << >>
    ELSE LET kept == SectionKept(sections[i])
         IN  (IF kept # ""
              THEN << SectionIssue(file_path, kept, priority, types_str) >>
              ELSE << >>)
             \o SectionIssues(file_path, sections, priority, types_str, i + 1)

\* the two early returns
ShortCircuit(analysis_text) ==
    \/ analysis_text = ""
    \/ Len(Strip(analysis_text)) < MinTextLen
    \/ Strip(Lower(analysis_text)) \in {"no issues detected.", "no issues detected"}

\* the sections of the else branch
Sections(analysis_text) ==
    LET split == ReSplitHeadings(analysis_text)
    IN  IF Len(split) < 2 THEN << analysis_text >> ELSE split

\* the if branch: one record per collected line that the pattern matches
LineMode(file_path, analysis_text, analysis_types) ==
    LineIssues(file_path, IssueLines(analysis_text),
               determine_priority(analysis_text), TypesStr(analysis_types), 1)

\* the else branch: one record per kept section
SectionMode(file_path, analysis_text, analysis_types) ==
    SectionIssues(file_path, Sections(analysis_text),
                  determine_priority(analysis_text), TypesStr(analysis_types), 1)

parse_analysis_to_issues(file_path, analysis_text, analysis_types) ==
    IF ShortCircuit(analysis_text) THEN << >>
    ELSE IF IssueLines(analysis_text) # << >>
         THEN LineMode(file_path, analysis_text, analysis_types)
         ELSE SectionMode(file_path, analysis_text, analysis_types)

-----------------------------------------------------------------------------
(* Syntax Checker: _check_syntax_errors, _find_syntax_errors                *)

DigitChars == "0123456789"

\* str(n) for an int n >= 0
RECURSIVE IntStr(_)
IntStr(n) ==
    IF n < 10 THEN Ch(DigitChars, n + 1)
    ELSE IntStr(n \div 10) \o Ch(DigitChars, (n % 10) + 1)

\* ' ' * n
RECURSIVE Spaces(_)
Spaces(n) == IF n <= 0 THEN "" ELSE " " \o Spaces(n - 1)

\* the keys of lang_map: the extensions a parser is registered for when
\* _initialize_tree_sitter runs to its end
LangMapExts ==
    { ".py", ".js", ".jsx", ".ts", ".tsx", ".java", ".go", ".rs", ".c", ".cpp",
      ".cc", ".cxx", ".h", ".hpp", ".cs", ".php", ".rb", ".sh", ".bash",
      ".html", ".htm", ".css", ".dockerfile", ".kt", ".kts", ".json", ".sql" }

\* self.parsers after __init__: every extension, or none when tree_sitter is
\* missing or the set-up raised at its first parser
Registries == { LangMapExts, {} }

None == [some |-> FALSE]
Some(v) == [some |-> TRUE, val |-> v]

\* errors[:5]
MaxErrorsListed == 5
\* line_content.strip()[:50]
SnippetLen == 50

\* the dict _find_syntax_errors appends for an ERROR node starting in row
ErrorEntry(content, row) ==
    LET lines == Split(content, "\n")
        line_content == IF row < Len(lines) THEN lines[row + 1] ELSE ""
    IN  [ line |-> row + 1,
          msg  |-> "Syntax error in code: " \o Take(Strip(line_content), SnippetLen) ]

\* the finding of the Tree-sitter branch, rows being the start rows of the
\* ERROR nodes in the order the walk meets them
TreeSitterFinding(file_path, content, rows) ==
    LET file_lang == get_file_language(file_path)
        n         == IF Len(rows) < MaxErrorsListed THEN Len(rows) ELSE MaxErrorsListed
        error_msg == Join("\n", [i \in 1..n |->
                         LET e == ErrorEntry(content, rows[i])
                         IN  "Line " \o IntStr(e.line) \o ": " \o e.msg])
    IN  [ title |-> "Syntax Error: " \o PathName(file_path),
          body  |-> "## File\n" \o Backquote \o file_path \o Backquote
                    \o "\n\n## Priority\n**HIGH**\n\n## Type\nbugs\n\n---\n\n"
                    \o "**Syntax Errors Detected (" \o file_lang \o "):**\n\n"
                    \o error_msg
                    \o "\n\nThis code will fail to compile/run.\n\n---\n"
                    \o "*Detected by Tree-sitter + Oumi*\n",
          tags  |-> << "syntax-error", FirstWord(Lower(file_lang)), "compilation-error" >> ]

\* the finding of the ast.parse branch for the SyntaxError e
AstFinding(file_path, e) ==
    LET error_msg ==
            "Syntax Error on line " \o IntStr(e.lineno) \o ": " \o e.msg \o "\n"
            \o (IF e.text # ""
                THEN "Code: " \o Strip(e.text) \o "\n"
                     \o (IF e.offset # 0
                         THEN "      " \o Spaces(e.offset - 1) \o "^\n" ELSE "")
                ELSE "")
    IN  [ title |-> "Syntax Error: " \o PathName(file_path),
          body  |-> "## File\n" \o Backquote \o file_path \o Backquote
                    \o "\n\n## Priority\n**HIGH**\n\n## Type\nbugs\n\n---\n\n"
                    \o "**Syntax Error Detected:**\n\n"
                    \o error_msg
                    \o "\n\nThis code will fail to compile/run.\n\n---\n"
                    \o "*Analysis powered by Oumi Inference Engine*\n",
          tags  |-> << "syntax-error", "python", "compilation-error" >> ]

\* what the grammar parser can do with one content: raise, or return a tree
\* whose root has_error or not, with the start rows of its ERROR nodes (a
\* tree can have has_error with no ERROR node: a MISSING node)
TreeSitterOutcomes ==
    { [kind |-> "raise", has_error |-> FALSE, rows |-> << >>],
      [kind |-> "tree",  has_error |-> FALSE, rows |-> << >>],
      [kind |-> "tree",  has_error |-> TRUE,  rows |-> << >>],
      [kind |-> "tree",  has_error |-> TRUE,  rows |-> << 0, 0, 1, 1, 1, 2 >>] }

\* what ast.parse can do: return, raise SyntaxError, raise something else
AstOutcomes ==
    { [kind |-> "ok"],
      [kind |-> "raise"],
      [kind |-> "SyntaxError", lineno |-> 1, msg |-> "'(' was never closed",
       text |-> "x = (1\n", offset |-> 5] }

Oracles == {[ts |-> t, py |-> a] : t \in TreeSitterOutcomes, a \in AstOutcomes}

\* a checker that returns None as soon as the grammar parser has raised
check_syntax_errors_NoFallback(file_path, content, registry, orc) ==
    LET file_ext == Lower(PathSuffix(file_path))
    IN  IF file_ext \in registry /\ orc.ts.kind = "raise"
        THEN None
        ELSE IF /\ file_ext \in registry
                /\ orc.ts.kind = "tree" /\ orc.ts.has_error /\ orc.ts.rows # << >>
        THEN Some(TreeSitterFinding(file_path, content, orc.ts.rows))
        ELSE IF file_ext = ".py" /\ orc.py.kind = "SyntaxError"
             THEN Some(AstFinding(file_path, orc.py))
             ELSE None

\* _check_syntax_errors with the registry and what the two parsers do
check_syntax_errors(file_path, content, registry, orc) ==
    LET file_ext == Lower(PathSuffix(file_path))
    IN  IF /\ file_ext \in registry
           /\ orc.ts.kind = "tree" /\ orc.ts.has_error /\ orc.ts.rows # << >>
        THEN Some(TreeSitterFinding(file_path, content, orc.ts.rows))
        ELSE IF file_ext = ".py" /\ orc.py.kind = "SyntaxError"
             THEN Some(AstFinding(file_path, orc.py))
             ELSE None

-----------------------------------------------------------------------------
(* Analysis Orchestrator: analyze_file, analyze_files                       *)

\* content[:80000]
MaxContentLen == 80000

\* the f-string of lines 413-431
Prompt(file_path, content, analysis_types, user_prompt) ==
    LET types_str    == TypesStr(analysis_types)
        user_context == IF user_prompt # "" THEN "\n" \o user_prompt \o "\n" ELSE ""
        file_lang    == get_file_language(file_path)
        suffix       == PathSuffix(file_path)
    IN  "You are analyzing " \o file_lang \o " code for: " \o types_str \o "\n\n"
        \o Backquote \o Backquote \o Backquote
        \o (IF suffix # "" THEN Drop(suffix, 1) ELSE "text") \o "\n"
        \o Take(content, MaxContentLen) \o "\n"
        \o Backquote \o Backquote \o Backquote \o "\n\n"
        \o "CHECK EVERY LINE for these issues:\n"
        \o "- Syntax errors: missing ), }, ], ;, quotes, typos (strin→string)  \n"
        \o "- Division by zero: X/0\n"
        \o "- SQL injection: \"SELECT\" + user_input\n"
        \o "- Null access: value.property without null check\n"
        \o "- Security: eval(), os.system(), hardcoded secrets\n"
        \o "- Logic: if (x = 5) instead of ==, count && <Component/> shows 0\n\n"
        \o "Report ALL problems found:\n### Issues\n- Line X: [problem description]\n\n"
        \o "If NO problems: \"No issues detected.\"" \o user_context

\* a condition that runs the Syntax Checker for "bugs" only
WantsSyntaxCheckBugsOnly(analysis_types) == InTypes("bugs", analysis_types)

\* the condition of line 397
WantsSyntaxCheck(analysis_types) ==
    \/ InTypes("bugs", analysis_types)
    \/ InTypes("linting", analysis_types)
    \/ InTypes("build", analysis_types)

\* the dict returned at lines 401-407 and 456-462
SuccessResult(file_path, issues) ==
    [ file |-> file_path, status |-> "success", issues |-> issues,
      powered_by |-> "Oumi Inference Engine", model |-> "gpt-4o-mini" ]

\* the dict returned at lines 465-471
ErrorResult(file_path, message) ==
    [ file |-> file_path, status |-> "error", issues |-> << >>,
      error |-> message, powered_by |-> "Oumi Inference Engine" ]

\* the texts the model answers with
ReplyTexts ==
    { "- Line 12: missing semicolon\n- Line 45: undefined variable foo",
      "No issues detected." }

\* what engine.infer can do: raise, or return a list that is empty, or whose
\* conversation has no messages (repr: its str()), or whose last message has
\* no content attribute (repr: its str()), or has a str or a list as content
InferOutcomes ==
    { [kind |-> "raise", msg |-> "Connection error."],
      [kind |-> "empty"],
      [kind |-> "no_messages",
       repr |-> "conversation_id=None messages=[] metadata={}"],
      [kind |-> "no_content",
       repr |-> "role=assistant parts=[] error: content filtered"],
      [kind |-> "content_list"] }
    \cup {[kind |-> "content", text |-> t] : t \in ReplyTexts}

\* lines 440-451: the text taken from the reply
AnalysisText(reply) ==
    CASE reply.kind = "empty" -> "No response from model"
      [] reply.kind = "no_messages" -> reply.repr
      [] reply.kind = "no_content" -> reply.repr
      [] reply.kind = "content" -> reply.text

\* the file units and the type lists of the requests
FileUnits ==
    { [path |-> "src/app.py", content |-> "x = (1\ny = 2\n"],
      [path |-> "web/view.js", content |-> "let a = 1;\n"] }
TypeLists ==
    { << PyStr("bugs") >>, << PyStr("security") >>,
      << PyStr("security"), PyStr("build") >> }
\* the lists a direct caller may pass: nothing checks the members' type
LooseTypeLists == TypeLists \cup { << PyStr("security"), PyInt7 >> }
UserPrompts == { "" }

\* _parse_analysis_to_issues on every text analyze_file can hand it here,
\* worked out once
AllAnalysisTexts ==
    {AnalysisText(r) : r \in {o \in InferOutcomes : o.kind \notin {"raise", "content_list"}}}
IssuesOf ==
    [ p \in {f.path : f \in FileUnits}, t \in AllAnalysisTexts, ty \in LooseTypeLists |->
        IF JoinRaises(ty) THEN << >> ELSE parse_analysis_to_issues(p, t, ty) ]

\* lines 433-471: what analyze_file returns once engine.infer has answered
AfterInfer(file_path, analysis_types, reply) ==
    IF reply.kind = "raise" THEN ErrorResult(file_path, reply.msg)
    ELSE IF reply.kind = "content_list"
         THEN ErrorResult(file_path, "'list' object has no attribute 'strip'")
    ELSE SuccessResult(file_path, IssuesOf[file_path, AnalysisText(reply), analysis_types])

-----------------------------------------------------------------------------
(* Calls of the pure functions: the arguments are drawn in the initial      *)
(* state and one action applies the function.                               *)

\* how many phrases / lines an input text is put together from
MaxPhrases == 2
MaxLines == 2

NotReturned == [done |-> FALSE, val |-> << >>]
Returned(v) == [done |-> TRUE, val |-> v]
NoCall == [fn |-> "none"]
NoRequest == [caller |-> "none", files |-> << >>, types |-> << >>]
NoResponse == [status |-> 0]
NoCur == [active |-> FALSE]
NoReply == [kind |-> "none"]

\* the endpoint and the analyzer at rest, for the runs that only call a function
ServerAtRest ==
    /\ parsers = {}
    /\ ANALYZER_AVAILABLE = FALSE
    /\ analyzer_instance = "None"
    /\ pc = "pure"
    /\ request = NoRequest
    /\ results = << >>
    /\ cur = NoCur
    /\ inferCalls = << >>
    /\ oracle = << >>
    /\ response = NoResponse
    /\ pool = << >>

serverVars == << pool, parsers, ANALYZER_AVAILABLE, analyzer_instance, pc, request,
                 results, cur, inferCalls, oracle, response >>

\* all sequences over S of length lo..hi
SeqsOf(S, lo, hi) == UNION {[1..n -> S] : n \in lo..hi}

RECURSIVE ConcatFrom(_, _)
ConcatFrom(xs, i) == IF i > Len(xs) THEN "" ELSE xs[i] \o ConcatFrom(xs, i + 1)
Concat(xs) == ConcatFrom(xs, 1)

PriorityPhrases ==
    { "SQL Injection in the query. ", "This may crash. ", "Deprecated call. ",
      "Style nit. ", "Looks fine. ", "A debugging aid. ", "CRITICAL: ",
      "Consider this Improvement. " }

PriorityTexts == {Concat(xs) : xs \in SeqsOf(PriorityPhrases, 0, MaxPhrases)}

InitPriority ==
    /\ call \in {[fn |-> "priority", text |-> t] : t \in PriorityTexts}
    /\ ret = NotReturned
    /\ ServerAtRest

DeterminePriority ==
    /\ call.fn = "priority"
    /\ ~ret.done
    /\ ret' = Returned(determine_priority(call.text))
    /\ UNCHANGED << call, serverVars >>

NextPriority == DeterminePriority

SpecPriority == InitPriority /\ [][NextPriority]_vars

TagTitles == { "Line 3: eval of user input", "Review notes" }
TagPhrases ==
    { "Syntax Error and a TypeError. ", "Null pointer; x is not defined. ",
      "Module not found, build failed. ", "SQL injection via XSS. ",
      "Nothing to report. ", "Unclosed resource. " }
TagPaths == { "src/app.py", "web/View.JSX", "Makefile" }

InitTags ==
    /\ call \in {[fn |-> "tags", title |-> t, content |-> Concat(xs), file_path |-> p] :
                    t \in TagTitles, xs \in SeqsOf(TagPhrases, 0, MaxPhrases),
                    p \in TagPaths}
    /\ ret = NotReturned
    /\ ServerAtRest

ExtractTags ==
    /\ call.fn = "tags"
    /\ ~ret.done
    /\ ret' = Returned(extract_tags(call.title, call.content, call.file_path))
    /\ UNCHANGED << call, serverVars >>

NextTags == ExtractTags

SpecTags == InitTags /\ [][NextTags]_vars

SegLines ==
    { "- Line 12: missing semicolon",
      "- Line 45: undefined variable foo",
      "-Line 7: null pointer dereference",
      "- Line X: [problem description]",
      "* Line 3: the query is built by sql concatenation of the user input, then run",
      "## Issues found: eval on user input in run()",
      "No issues detected.",
      "            ",
      "The eval call on user input is a security vulnerability and the query uses sql concatenation.",
      "ISSUES found in the parser module" }

SegTexts == {Join("\n", xs) : xs \in SeqsOf(SegLines, 1, MaxLines)}
SegPaths == { "src/app.py" }
SegTypes == << PyStr("bugs"), PyStr("security") >>

InitSegment ==
    /\ call \in {[fn |-> "segment", file_path |-> p, text |-> t, types |-> SegTypes] :
                    p \in SegPaths, t \in SegTexts}
    /\ ret = NotReturned
    /\ ServerAtRest

Segment ==
    /\ call.fn = "segment"
    /\ ~ret.done
    /\ ret' = Returned(parse_analysis_to_issues(call.file_path, call.text, call.types))
    /\ UNCHANGED << call, serverVars >>

NextSegment == Segment

SpecSegment == InitSegment /\ [][NextSegment]_vars

SyntaxPaths == { "src/app.py", "lib/Tool.PY", "web/view.js", "README" }
SyntaxContents == { f.content : f \in FileUnits }

InitSyntax ==
    /\ call \in {[fn |-> "syntax", file_path |-> p, content |-> c, types |-> t,
                  orc |-> o] :
                    p \in SyntaxPaths, c \in SyntaxContents, t \in TypeLists,
                    o \in Oracles}
    /\ ret = NotReturned
    /\ parsers \in Registries
    /\ ANALYZER_AVAILABLE = TRUE
    /\ analyzer_instance = "created"
    /\ pc = "pure"
    /\ request = NoRequest
    /\ results = << >>
    /\ cur = NoCur
    /\ inferCalls = << >>
    /\ oracle = << >>
    /\ response = NoResponse
    /\ pool = << >>

\* the first step of analyze_file, lines 397-407: the Syntax Checker is
\* called for the types of line 397, and the file goes on to the prompt
\* unless there is a finding
SyntaxStep ==
    /\ call.fn = "syntax"
    /\ ~ret.done
    /\ LET finding == IF WantsSyntaxCheck(call.types)
                      THEN check_syntax_errors(call.file_path, call.content,
                                               parsers, call.orc)
                      ELSE None
       IN  ret' = Returned([ finding |-> finding,
                             step    |-> IF finding.some THEN "return" ELSE "prompt" ])
    /\ UNCHANGED << call, serverVars >>

NextSyntax == SyntaxStep

SpecSyntax == InitSyntax /\ [][NextSyntax]_vars

-----------------------------------------------------------------------------
(* The batch: analyze_files, and the /api/analyze endpoint of app.py        *)

\* how many files a request holds at most
MaxFiles == 2

\* whether building the prompt raises: ", ".join at line 409 on a list with
\* a member that is not a str (the one statement of lines 409-431 that can
\* fail on the arguments drawn here)
PromptRaises(analysis_types) == JoinRaises(analysis_types)
JoinTypeError == "sequence item 1: expected str instance, int found"

\* a loop that puts each result in front of the list
PrependResult(rs, r) == << r >> \o rs

\* results.append(result)
AppendResult(rs, r) == Append(rs, r)

RECURSIVE IssueCountFrom(_, _)
IssueCountFrom(rs, i) ==
    IF i > Len(rs) THEN 0 ELSE Len(rs[i].issues) + IssueCountFrom(rs, i + 1)

\* a count of the results whose status is success
FilesWithIssuesByStatus(rs) ==
    Cardinality({i \in DOMAIN rs : rs[i].status = "success"})

\* sum(1 for r in results if r.get("issues"))
FilesWithIssues(rs) == Cardinality({i \in DOMAIN rs : rs[i].issues # << >>})

\* the summary of lines 148-153
Summary(files, rs) ==
    [ total_files       |-> Len(files),
      total_issues      |-> IssueCountFrom(rs, 1),
      files_with_issues |-> FilesWithIssues(rs),
      powered_by        |-> "Oumi Inference Engine" ]

\* the HTTPException the handler ends with; Caught is one raised inside the
\* try block, which the except clause of line 157 turns into a 500 whose
\* detail holds str() of the first: "<status>: <detail>"
HttpError(code, detail) == [status |-> code, detail |-> detail]
Caught(code, detail) ==
    HttpError(500, "Analysis error: " \o IntStr(code) \o ": " \o detail)

Init ==
    /\ call = NoCall
    /\ ret = NotReturned
    /\ ANALYZER_AVAILABLE \in BOOLEAN
    \* startup_event: get_analyzer() is tried once when the import succeeded
    /\ \E made \in BOOLEAN, reg \in Registries :
          IF ANALYZER_AVAILABLE /\ made
          THEN analyzer_instance = "created" /\ parsers = reg
          ELSE analyzer_instance = "None" /\ parsers = {}
    /\ pc = "idle"
    /\ request = NoRequest
    /\ results = << >>
    /\ cur = NoCur
    /\ inferCalls = << >>
    /\ oracle = << >>
    /\ response = NoResponse
    /\ pool = << >>

\* analyze_code, from the request to the await of line 138 or to the
\* HTTPException that ends it; made: whether OumiAnalyzer() succeeds if
\* get_analyzer has to call it, reg: the parsers it then registers
Receive ==
    /\ pc = "idle"
    /\ \E files \in SeqsOf(FileUnits, 0, MaxFiles), types \in TypeLists,
          up \in UserPrompts, made \in BOOLEAN, reg \in Registries :
          /\ request' = [caller |-> "endpoint", files |-> files, types |-> types,
                         user_prompt |-> up]
          /\ IF ~ANALYZER_AVAILABLE
             THEN /\ response' = HttpError(503,
                        "OumiAnalyzer is not available. Check server logs for details.")
                  /\ pc' = "responded"
                  /\ UNCHANGED << analyzer_instance, parsers >>
             ELSE IF files = << >>
             THEN /\ response' = Caught(400, "No files provided")
                  /\ pc' = "responded"
                  /\ UNCHANGED << analyzer_instance, parsers >>
             ELSE IF analyzer_instance = "None" /\ ~made
             THEN /\ response' = Caught(503,
                        "OumiAnalyzer instance could not be created. Check server logs.")
                  /\ pc' = "responded"
                  /\ UNCHANGED << analyzer_instance, parsers >>
             ELSE /\ response' = NoResponse
                  /\ pc' = "running"
                  /\ analyzer_instance' = "created"
                  /\ parsers' = IF analyzer_instance = "None" THEN reg ELSE parsers
    /\ results' = << >>
    /\ inferCalls' = << >>
    /\ oracle' = << >>
    /\ cur' = NoCur
    /\ UNCHANGED << pool, call, ret, ANALYZER_AVAILABLE >>

\* one turn of the loop of analyze_files: analyze_file from its start to its
\* return at line 401, to the exception of line 409 or to the call of
\* engine.infer at line 438; orc: what the parsers do with this file
AnalyzeFileStart ==
    /\ pc = "running"
    /\ Len(results) < Len(request.files)
    /\ \E orc \in Oracles :
          LET f       == request.files[Len(results) + 1]
              finding == check_syntax_errors(f.path, f.content, parsers, orc)
          IN  /\ oracle' = Append(oracle, [finding |-> finding, reply |-> NoReply])
              /\ IF WantsSyntaxCheck(request.types) /\ finding.some
                 THEN /\ results' = AppendResult(results,
                                        SuccessResult(f.path, << finding.val >>))
                      /\ inferCalls' = Append(inferCalls, 0)
                      /\ UNCHANGED << pc, cur >>
                 ELSE IF PromptRaises(request.types)
                 THEN /\ pc' = "raised"
                      /\ cur' = [active |-> FALSE, exc |-> JoinTypeError]
                      /\ inferCalls' = Append(inferCalls, 0)
                      /\ UNCHANGED results
                 ELSE /\ pc' = "inferring"
                      /\ cur' = [active |-> TRUE,
                                 prompt |-> Prompt(f.path, f.content, request.types,
                                                   request.user_prompt)]
                      /\ inferCalls' = Append(inferCalls, 1)
                      /\ UNCHANGED results
    /\ UNCHANGED << pool, call, ret, parsers, ANALYZER_AVAILABLE, analyzer_instance,
                    request, response >>

\* engine.infer answers: the rest of analyze_file, lines 438-471, and
\* results.append
InferReturn ==
    /\ pc = "inferring"
    /\ \E reply \in InferOutcomes :
          /\ results' = AppendResult(results,
                            AfterInfer(request.files[Len(results) + 1].path,
                                       request.types, reply))
          /\ oracle' = [oracle EXCEPT ![Len(results) + 1].reply = reply]
    /\ pc' = "running"
    /\ cur' = NoCur
    /\ UNCHANGED << pool, call, ret, parsers, ANALYZER_AVAILABLE, analyzer_instance,
                    request, inferCalls, response >>

\* the await of line 138 ends: the response of lines 147-155, or the 500 of
\* line 159 when analyze_files raised
Respond ==
    /\ request.caller = "endpoint"
    /\ \/ pc = "raised"
       \/ pc = "running" /\ Len(results) = Len(request.files)
    /\ response' = IF pc = "raised"
                   THEN HttpError(500, "Analysis error: " \o cur.exc)
                   ELSE [ status  |-> 200,
                          summary |-> Summary(request.files, results),
                          results |-> results ]
    /\ pc' = "responded"
    /\ UNCHANGED << pool, call, ret, parsers, ANALYZER_AVAILABLE, analyzer_instance,
                    request, results, cur, inferCalls, oracle >>

\* the response is sent and the server waits for the next request
NextRequest ==
    /\ pc = "responded"
    /\ pc' = "idle"
    /\ request' = NoRequest
    /\ results' = << >>
    /\ cur' = NoCur
    /\ inferCalls' = << >>
    /\ oracle' = << >>
    /\ response' = NoResponse
    /\ UNCHANGED << pool, call, ret, parsers, ANALYZER_AVAILABLE, analyzer_instance >>

Next == Receive \/ AnalyzeFileStart \/ InferReturn \/ Respond \/ NextRequest

Spec == Init /\ [][Next]_vars

(* analyze_files called on an analyzer of the caller's own, without the    *)
(* endpoint and its validation of the request                              *)

InitDirect ==
    /\ call = NoCall
    /\ ret = NotReturned
    /\ ANALYZER_AVAILABLE = TRUE
    /\ analyzer_instance = "created"
    /\ parsers \in Registries
    /\ pc = "idle"
    /\ request = NoRequest
    /\ results = << >>
    /\ cur = NoCur
    /\ inferCalls = << >>
    /\ oracle = << >>
    /\ response = NoResponse
    /\ pool = << >>

DirectCall ==
    /\ pc = "idle"
    /\ \E files \in SeqsOf(FileUnits, 0, MaxFiles), types \in LooseTypeLists,
          up \in UserPrompts :
          request' = [caller |-> "direct", files |-> files, types |-> types,
                      user_prompt |-> up]
    /\ pc' = "running"
    /\ UNCHANGED << pool, call, ret, parsers, ANALYZER_AVAILABLE, analyzer_instance,
                    results, cur, inferCalls, oracle, response >>

\* return results
DirectReturn ==
    /\ request.caller = "direct"
    /\ pc = "running"
    /\ Len(results) = Len(request.files)
    /\ pc' = "returned"
    /\ response' = [status |-> 0, results |-> results]
    /\ UNCHANGED << pool, call, ret, parsers, ANALYZER_AVAILABLE, analyzer_instance,
                    request, results, cur, inferCalls, oracle >>

NextDirect == DirectCall \/ AnalyzeFileStart \/ InferReturn \/ DirectReturn

SpecDirect == InitDirect /\ [][NextDirect]_vars

-----------------------------------------------------------------------------
(* Concurrent requests: each batch is one task of the executor              *)

\* ThreadPoolExecutor(max_workers=4)
MaxWorkers == 4

\* the requests that can be open at once
RequestIds == {"r1", "r2"}

\* what the parsers and the engine do in these runs
PoolOracles ==
    {o \in Oracles : o.ts.kind = "raise" /\ o.py.kind \in {"ok", "SyntaxError"}}
PoolReplies == {rep \in InferOutcomes : rep.kind \in {"raise", "empty"}}
PoolTypes == << PyStr("bugs") >>

NoOutcome == [finding |-> None, reply |-> NoReply]
NoBatch ==
    [ st |-> "none", files |-> << >>, types |-> << >>, started |-> {},
      inflight |-> {}, order |-> << >>, res |-> << >>, outs |-> << >> ]

\* a map over the files that starts any file not started yet
NextFileAnyUnstarted(b) == {i \in DOMAIN b.files : i \notin b.started}

\* the for loop of analyze_files: the file after the last result, once the
\* call of analyze_file for the file before it has returned
NextFile(b) ==
    IF b.inflight = {} /\ Len(b.order) < Len(b.files)
    THEN {Len(b.order) + 1} ELSE {}

InitPool ==
    /\ pool = [r \in RequestIds |-> NoBatch]
    /\ call = NoCall
    /\ ret = NotReturned
    /\ parsers = LangMapExts
    /\ ANALYZER_AVAILABLE = TRUE
    /\ analyzer_instance = "created"
    /\ pc = "pool"
    /\ request = NoRequest
    /\ results = << >>
    /\ cur = NoCur
    /\ inferCalls = << >>
    /\ oracle = << >>
    /\ response = NoResponse

poolFrame == << call, ret, parsers, ANALYZER_AVAILABLE, analyzer_instance, pc,
                request, results, cur, inferCalls, oracle, response >>

\* analyze_code on the event loop up to run_in_executor: the batch is queued
PoolReceive(r) ==
    /\ pool[r].st = "none"
    /\ \E files \in SeqsOf(FileUnits, 1, MaxFiles) :
          pool' = [pool EXCEPT ![r] =
                      [NoBatch EXCEPT !.st = "queued", !.files = files,
                                      !.types = PoolTypes,
                                      !.outs = [i \in DOMAIN files |-> NoOutcome]]]
    /\ UNCHANGED poolFrame

\* a free worker thread takes the batch and calls analyze_files
PoolStart(r) ==
    /\ pool[r].st = "queued"
    /\ Cardinality({q \in RequestIds : pool[q].st = "running"}) < MaxWorkers
    /\ pool' = [pool EXCEPT ![r].st = "running"]
    /\ UNCHANGED poolFrame

\* analyze_file is called for a file of the batch: it returns with the
\* finding, or calls engine.infer
PoolFileStart(r) ==
    /\ pool[r].st = "running"
    /\ \E i \in NextFile(pool[r]), orc \in PoolOracles :
          LET b       == pool[r]
              f       == b.files[i]
              finding == check_syntax_errors(f.path, f.content, parsers, orc)
          IN  pool' = [pool EXCEPT ![r] =
                 IF WantsSyntaxCheck(b.types) /\ finding.some
                 THEN [b EXCEPT !.started = @ \cup {i},
                                !.outs[i].finding = finding,
                                !.order = Append(@, i),
                                !.res = AppendResult(@, SuccessResult(f.path, << finding.val >>))]
                 ELSE [b EXCEPT !.started = @ \cup {i},
                                !.outs[i].finding = finding,
                                !.inflight = @ \cup {i}]]
    /\ UNCHANGED poolFrame

\* engine.infer answers a call of the batch and the result is appended
PoolInferReturn(r) ==
    /\ pool[r].st = "running"
    /\ \E i \in pool[r].inflight, reply \in PoolReplies :
          LET b == pool[r]
          IN  pool' = [pool EXCEPT ![r] =
                 [b EXCEPT !.inflight = @ \ {i},
                           !.outs[i].reply = reply,
                           !.order = Append(@, i),
                           !.res = AppendResult(@, AfterInfer(b.files[i].path, b.types, reply))]]
    /\ UNCHANGED poolFrame

\* analyze_files returns: the worker is free and the future is done
PoolReturn(r) ==
    /\ pool[r].st = "running"
    /\ pool[r].inflight = {}
    /\ Len(pool[r].order) = Len(pool[r].files)
    /\ pool' = [pool EXCEPT ![r].st = "done"]
    /\ UNCHANGED poolFrame

\* the event loop resumes analyze_code, which answers the request
PoolRespond(r) ==
    /\ pool[r].st = "done"
    /\ pool' = [pool EXCEPT ![r] = NoBatch]
    /\ UNCHANGED poolFrame

NextPool ==
    \E r \in RequestIds :
        \/ PoolReceive(r)
        \/ PoolStart(r)
        \/ PoolFileStart(r)
        \/ PoolInferReturn(r)
        \/ PoolReturn(r)
        \/ PoolRespond(r)

SpecPool == InitPool /\ [][NextPool]_vars

-----------------------------------------------------------------------------
(* Properties of the Analysis Orchestrator and of the endpoint              *)

SyntaxTypes == {"bugs", "linting", "build"}
AsksForSyntax(types) ==
    \E k \in DOMAIN types : types[k].ty = "str" /\ types[k].v \in SyntaxTypes

\* C1: whenever the requested types hold one of bugs, linting and build and
\* the Syntax Checker returns a finding for a file, the result of that file
\* has status success, its issues are exactly that one finding, and
\* engine.infer is not called for that file.
C1_SyntaxFindingShortCircuits ==
    \A i \in DOMAIN oracle :
        (AsksForSyntax(request.types) /\ oracle[i].finding.some) =>
            /\ i <= Len(results)
            /\ results[i].status = "success"
            /\ results[i].issues = << oracle[i].finding.val >>
            /\ inferCalls[i] = 0
            /\ oracle[i].reply = NoReply

\* a batch is answered in which a file with a finding was analysed for
\* security and build, and the finding is its only issue
C1_Witness ==
    /\ response.status = 200
    /\ \E i \in DOMAIN oracle :
          /\ oracle[i].finding.some
          /\ AsksForSyntax(request.types)
          /\ \A k \in DOMAIN request.types : request.types[k].v # "bugs"
          /\ response.results[i].issues = << oracle[i].finding.val >>
          /\ inferCalls[i] = 0

FailedReplies == {"raise", "content_list"}

C3_OneResultPerFileInOrder ==
    /\ Len(results) <= Len(request.files)
    /\ \A i \in DOMAIN results :
          /\ results[i].file = request.files[i].path
          /\ oracle[i].reply.kind \in FailedReplies => results[i].status = "error"
    /\ (pc = "responded" /\ oracle # << >>) =>
          /\ response.status = 200
          /\ Len(response.results) = Len(request.files)
          /\ \A i \in DOMAIN response.results :
                response.results[i].file = request.files[i].path

\* two different files, the inference fails for the first, and the second
\* still has its own successful result
C3_Witness ==
    /\ response.status = 200
    /\ Len(request.files) = 2
    /\ request.files[1].path # request.files[2].path
    /\ oracle[1].reply.kind = "raise"
    /\ response.results[1].status = "error"
    /\ response.results[2].status = "success"
    /\ response.results[2].file = request.files[2].path

RECURSIVE C8_Total(_, _)
C8_Total(rs, n) == IF n = 0 THEN 0 ELSE C8_Total(rs, n - 1) + Len(rs[n].issues)

\* C8: the summary of every answered batch has total_files = the number of
\* files sent, total_issues = the sum of the lengths of the results' issues,
\* files_with_issues = the number of results with at least one issue; an
\* error result has no issues, so it adds to neither, and a batch that was
\* started is answered with 200 whatever failed in it.
C8_SummaryCountsIssues ==
    /\ response.status = 200 =>
          LET rs == response.results
          IN  /\ response.summary.total_files = Len(request.files)
              /\ response.summary.total_issues = C8_Total(rs, Len(rs))
              /\ response.summary.files_with_issues =
                     Cardinality({i \in DOMAIN rs : Len(rs[i].issues) > 0})
              /\ \A i \in DOMAIN rs : rs[i].status = "error" => rs[i].issues = << >>
    /\ (pc = "responded" /\ inferCalls # << >>) => response.status = 200

\* a batch is answered in which one file failed, one has issues and one
\* succeeded without any
C8_Witness ==
    /\ response.status = 200
    /\ \E i, j \in DOMAIN response.results :
          /\ response.results[i].status = "error"
          /\ response.results[j].issues # << >>
          /\ response.summary.total_issues = Len(response.results[j].issues)
          /\ response.summary.files_with_issues = 1

MalformedReplies == {"empty", "no_messages", "no_content"}
NoResponseText == "No response from model"

\* C11: whenever the reply of engine.infer is an empty list, a conversation
\* without messages or a last message without content, the text given to
\* _parse_analysis_to_issues is "No response from model", and the issues of
\* the result are those of that text: nothing of the reply object's own
\* text becomes an issue.
C11_MalformedReplyDefaults ==
    \A i \in DOMAIN results :
        oracle[i].reply.kind \in MalformedReplies =>
            /\ AnalysisText(oracle[i].reply) = NoResponseText
            /\ results[i].status = "success"
            /\ results[i].issues =
                   parse_analysis_to_issues(request.files[i].path, NoResponseText,
                                            request.types)

PythonPaths == { "src/app.py", "lib/Tool.PY" }
GrammarPaths == { "src/app.py", "lib/Tool.PY", "web/view.js" }
GrammarReports ==
    /\ call.file_path \in GrammarPaths
    /\ parsers # {}
    /\ call.orc.ts.kind = "tree"
    /\ call.orc.ts.has_error
    /\ call.orc.ts.rows # << >>
NativeReports ==
    /\ call.file_path \in PythonPaths
    /\ call.orc.py.kind = "SyntaxError"

\* C12: _check_syntax_errors returns for every path, content and behaviour
\* of the two parsers, a finding or None: when the grammar parse or the walk
\* raises, a .py file still gets ast.parse and its SyntaxError is reported;
\* when neither parser reports a syntax error (one of them having raised
\* something else or not) the call returns None and analyze_file goes on to
\* the prompt and the inference.
C12_SyntaxCheckNeverAborts ==
    (call.fn = "syntax" /\ ret.done /\ AsksForSyntax(call.types)) =>
        /\ ret.val.finding.some \in BOOLEAN
        /\ (~GrammarReports /\ NativeReports) =>
              /\ ret.val.finding.some
              /\ ret.val.finding.val.tags = << "syntax-error", "python", "compilation-error" >>
              /\ ret.val.step = "return"
        /\ (~GrammarReports /\ ~NativeReports) =>
              /\ ret.val.finding = None
              /\ ret.val.step = "prompt"
        /\ GrammarReports => ret.val.finding.some

\* the grammar parser raised on a .py file, ast.parse reported a
\* SyntaxError, and the call returned that finding
C12_Witness ==
    /\ call.fn = "syntax"
    /\ ret.done
    /\ AsksForSyntax(call.types)
    /\ parsers # {}
    /\ call.file_path \in PythonPaths
    /\ call.orc.ts.kind = "raise"
    /\ call.orc.py.kind = "SyntaxError"
    /\ ret.val.finding.some
    /\ ret.val.finding.val.title = "Syntax Error: " \o PathName(call.file_path)

\* the result a file has by itself: from its own path and content, the
\* types of its batch and what the parsers and the engine did for it
C13_OwnResult(f, types, out) ==
    IF out.finding.some
    THEN [ file |-> f.path, status |-> "success", issues |-> << out.finding.val >>,
           powered_by |-> "Oumi Inference Engine", model |-> "gpt-4o-mini" ]
    ELSE AfterInfer(f.path, types, out.reply)

\* C13: however the batches of concurrent requests interleave, each batch
\* has at most one inference call in flight, the call in flight is for the
\* file right after the results already appended, the results are appended
\* in the order of the files, and each result is the one its file has by
\* itself, whatever the other files and the other batches are.
C13_OneFileAtATime ==
    \A r \in DOMAIN pool :
        LET b == pool[r]
        IN  /\ Cardinality(b.inflight) <= 1
            /\ \A i \in b.inflight : i = Len(b.order) + 1
            /\ Len(b.res) = Len(b.order)
            /\ \A k \in DOMAIN b.order :
                  /\ b.order[k] = k
                  /\ b.res[k] = C13_OwnResult(b.files[k], b.types, b.outs[k])

\* two batches have an inference call in flight at the same moment, one of
\* them for its second file after the result of its first
C13_Witness ==
    /\ DOMAIN pool = RequestIds
    /\ \E r, q \in RequestIds :
          /\ r # q
          /\ pool[r].inflight = {2}
          /\ Len(pool[r].res) = 1
          /\ pool[q].inflight # {}
          /\ pool[q].files # pool[r].files

\* C14: a request with no files is answered with status 400 and no file is
\* analysed; a request for which no analyzer instance can be had is
\* answered with 503; and 500 is the answer only when an analysis had been
\* started and failed.
C14_RejectionsKeepTheirStatus ==
    (pc = "responded" /\ request.caller = "endpoint") =>
        /\ (ANALYZER_AVAILABLE /\ request.files = << >>) =>
              /\ response.status = 400
              /\ oracle = << >>
        /\ (request.files # << >> /\ analyzer_instance = "None") =>
              response.status = 503
        /\ response.status = 500 => oracle # << >>

-----------------------------------------------------------------------------
(* Properties of the Classifier and the Issue Segmenter                     *)

\* s without its leading and trailing whitespace, stated on its own
Trim(s) ==
    LET keep == {i \in 1..Len(s) : Ch(s, i) \notin {" ", "\n", "\t", "\r"}}
    IN  IF keep = {} THEN ""
        ELSE Sub(s, Nth(keep, 1), Nth(keep, Cardinality(keep)))

NoDuplicates(xs) == \A i, j \in DOMAIN xs : i # j => xs[i] # xs[j]

Levels == {"critical", "high", "medium", "low"}

\* C4: classifyPriority returns exactly one of the four levels; on the
\* lower-cased text the first of the sets critical, high, medium, low that
\* has a keyword occurring in it decides, and with no keyword of any set
\* the result is medium.
C4_FirstMatchingSetWins ==
    (call.fn = "priority" /\ ret.done) =>
        LET t    == Lower(call.text)
            crit == AnyIn(critical_keywords, t)
            high == AnyIn(high_keywords, t)
            med  == AnyIn(medium_keywords, t)
            low  == AnyIn(low_keywords, t)
        IN  /\ ret.val \in Levels
            /\ crit => ret.val = "critical"
            /\ (~crit /\ high) => ret.val = "high"
            /\ (~crit /\ ~high /\ med) => ret.val = "medium"
            /\ (~crit /\ ~high /\ ~med /\ low) => ret.val = "low"
            /\ (~crit /\ ~high /\ ~med /\ ~low) => ret.val = "medium"

\* a text with a critical keyword in capitals, a high and a low keyword
C4_Witness ==
    /\ call.fn = "priority" /\ ret.done
    /\ ~AnyIn(critical_keywords, call.text)
    /\ AnyIn(critical_keywords, Lower(call.text))
    /\ AnyIn(high_keywords, Lower(call.text))
    /\ ret.val = "critical"

\* the tags of the table, and the entries of the table a text matches
TableTags == {error_tags[k][1] : k \in DOMAIN error_tags}
MatchedEntries(text) == {k \in DOMAIN error_tags : AnyIn(error_tags[k][2], text)}

\* C5: extractTags returns 1 to 5 tags without a duplicate; the tags from
\* the keyword table are the first (at most 3) matching entries in table
\* order, and the lower-cased first word of the detected language follows
\* them, once.
C5_TagsBounded ==
    (call.fn = "tags" /\ ret.done) =>
        LET tags    == ret.val
            text    == Lower(call.title \o " " \o call.content)
            matched == MatchedEntries(text)
            n       == IF Cardinality(matched) < 3 THEN Cardinality(matched) ELSE 3
            lang    == FirstWord(Lower(get_file_language(call.file_path)))
        IN  /\ Len(tags) >= 1 /\ Len(tags) <= 5
            /\ NoDuplicates(tags)
            /\ Cardinality({i \in DOMAIN tags : tags[i] \in TableTags}) <= 3
            /\ \A i \in 1..n : tags[i] = error_tags[Nth(matched, i)][1]
            /\ Len(tags) = n + 1
            /\ tags[n + 1] = lang

\* more than three entries of the table match and three tags come from it
C5_Witness ==
    /\ call.fn = "tags" /\ ret.done
    /\ Cardinality(MatchedEntries(Lower(call.title \o " " \o call.content))) > 3
    /\ Len(ret.val) = 4
    /\ ret.val[4] = "javascript"

\* the text is "no issues detected", with or without the period, whatever
\* the case of its letters and the whitespace around it
NoIssuesDetected(text) ==
    Lower(Trim(text)) \in {"no issues detected", "no issues detected."}

\* C6: for a text that, compared without regard to case and to the
\* whitespace around it, is "no issues detected" (with or without the
\* period), segment returns no record.
C6_NoIssuesNoRecord ==
    (call.fn = "segment" /\ ret.done /\ NoIssuesDetected(call.text)) =>
        ret.val = << >>

\* such a text, in capitals here and there and with whitespace around it
\* that makes it longer than both length thresholds
C6_Witness ==
    /\ call.fn = "segment" /\ ret.done
    /\ NoIssuesDetected(call.text)
    /\ call.text # Lower(call.text)
    /\ Len(call.text) >= MinSectionLen
    /\ ret.val = << >>

\* the trimmed lines of a text that the pattern [-*]\s*Line\s+(\d+):\s*(.+)
\* matches
PatternMatches(line) == LineMatch(line).ok
MatchingLines(text) ==
    LET raw == Split(text, "\n")
    IN  SelectFrom([i \in DOMAIN raw |-> Trim(raw[i])], PatternMatches, 1)

\* the title the claim gives the record of a matching line
C7_Title(line) ==
    LET m    == LineMatch(line)
        desc == Trim(m.desc)
    IN  "Line " \o m.num \o ": " \o Take(desc, 60)
        \o (IF Len(desc) > 60 THEN "..." ELSE "")

\* C7: every line that matches the pattern yields exactly one record: the
\* records are as many as the matching lines, in line order, each titled
\* "Line <n>: " and the first 60 characters of the description, with "..."
\* when the description is longer.  (Stated for texts the early returns let
\* through and with the lines trimmed, as the code trims them.)
C7_OneRecordPerMatchingLine ==
    (call.fn = "segment" /\ ret.done /\ ~ShortCircuit(call.text)
        /\ MatchingLines(call.text) # << >>) =>
        LET lines == MatchingLines(call.text)
        IN  /\ Len(ret.val) = Len(lines)
            /\ \A i \in DOMAIN lines : ret.val[i].title = C7_Title(lines[i])

\* C9: a text of at least 20 characters that is not "no issues detected"
\* and in which no line matches the pattern is segmented by section mode.
C9_NoMatchingLineMeansSectionMode ==
    (call.fn = "segment" /\ ret.done
        /\ Len(Trim(call.text)) >= 20
        /\ ~NoIssuesDetected(call.text)
        /\ MatchingLines(call.text) = << >>) =>
        ret.val = SectionMode(call.file_path, call.text, call.types)

\* the call took the else branch: section mode
InSectionMode ==
    /\ call.fn = "segment" /\ ret.done
    /\ ~ShortCircuit(call.text)
    /\ IssueLines(call.text) = << >>

\* a section's text after trimming and after a leading "issues" (in any
\* case) is removed
C10_Body(section) ==
    LET t == Trim(section)
    IN  IF StartsWith(Lower(t), "issues") THEN Trim(Drop(t, 6)) ELSE t

\* the rule of the claim: the length is that of the text after the removal
C10_YieldsAfterRemoval(section) == Len(C10_Body(section)) >= 30
\* the rule of the code: the length is that of the trimmed text
C10_YieldsBeforeRemoval(section) ==
    Len(Trim(section)) >= 30 /\ C10_Body(section) # ""

\* the records of ret are those of the sections qs, in order: titled with
\* the first 80 characters of the first line, ": " and the file name, the
\* section text in the body
C10_RecordsOf(qs) ==
    /\ Len(ret.val) = Len(qs)
    /\ \A i \in DOMAIN qs :
          LET body == C10_Body(qs[i])
          IN  /\ ret.val[i].title =
                     Take(Split(body, "\n")[1], 80) \o ": " \o PathName(call.file_path)
              /\ Contains(ret.val[i].body, "\n\n---\n\n" \o body \o "\n\n---\n\n")

\* C10 as claimed: in section mode a section yields a record iff its text,
\* trimmed and with a leading "Issues" removed, has at least 30 characters.
C10_LengthAfterRemoval ==
    InSectionMode =>
        C10_RecordsOf(SelectFrom(Sections(call.text), C10_YieldsAfterRemoval, 1))

\* C10 as amended: in section mode a section yields a record iff its
\* trimmed text has at least 30 characters, the length being tested before
\* a leading "issues" (in any case) is removed; the record's title is the
\* first 80 characters of the first line of what remains, ": " and the file
\* name, and what remains is its body section.
C10_LengthBeforeRemoval ==
    InSectionMode =>
        C10_RecordsOf(SelectFrom(Sections(call.text), C10_YieldsBeforeRemoval, 1))

\* a section that starts with "issues" yields a record whose body section
\* is shorter than 30 characters, and a title is cut at 80 characters
C10_Witness ==
    /\ InSectionMode
    /\ \E i \in DOMAIN Sections(call.text) :
          /\ C10_YieldsBeforeRemoval(Sections(call.text)[i])
          /\ ~C10_YieldsAfterRemoval(Sections(call.text)[i])
    /\ Len(ret.val) >= 1

=============================================================================
